---------------------------- MODULE Spec2Model ----------------------------
(***************************************************************************)
(* Model of the client-side logging service of the Jellynouncer web       *)
(* interface, src/web/src/services/logger.js (class ClientLogger).        *)
(*                                                                         *)
(* A log entry is modelled by its emission number (1, 2, 3, ...): the     *)
(* n-th entry ever created by addToQueue, over all page lifetimes of the  *)
(* same browser profile.  Of the entry's content only one fact matters    *)
(* to buffering, persistence and shipping and is kept: whether            *)
(* JSON.stringify accepts its metadata (poison).                          *)
(*                                                                         *)
(* Every action is one turn of the JavaScript event loop: one handler run *)
(* to completion (or to its first await).  The continuation of flushLogs  *)
(* after `await sendLogs()` is a turn of its own (SendOk, SendFail).      *)
(* Under Spec every storage call succeeds and every entry is              *)
(* serialisable; SpecLive and SpecFaults lift that.  SpecLevels adds the   *)
(* severity threshold, SpecSession the session id, SpecApi the axios       *)
(* client of src/unnamed/part_004.                                         *)
(***************************************************************************)
EXTENDS Integers, Sequences, FiniteSets, TLC

(***************************************************************************)
(* Program constants, scaled down so that the state space is finite and   *)
(* small.  logger.js:19 sets LOG_BATCH_SIZE = 20 and logger.js:21 sets    *)
(* MAX_STORED_LOGS = 100; no handler depends on the concrete values, only *)
(* on comparisons with queue lengths.                                      *)
(***************************************************************************)
LOG_BATCH_SIZE == 3

MAX_STORED_LOGS == 3

\* Entries emitted over all lifetimes (caps the emission counter).
MaxEntries == 4

\* API calls the application makes.
MaxRequests == 2

\* Times one API call may be dispatched (caps the dispatch counter).
MaxAttempts == 3

VARIABLES
    logQueue,    \* this.logQueue: entries waiting in memory
    isOnline,    \* this.isOnline
    isSending,   \* this.isSending; between turns it is TRUE exactly while a fetch is pending
    logsToSend,  \* the local logsToSend of the pending flushLogs call (<<>> when none)
    storage,     \* localStorage[LOG_STORAGE_KEY] as a sequence (<<>>: key absent)
    accepted,    \* history: entries of the batches the collector answered 2xx, in order
    lifeBase,    \* history: Len(accepted) when the current page lifetime began
    lifeFirst,   \* history: the first entry created in the current page lifetime
    beaconed,    \* history: entries handed to sendBeacon / the synchronous XHR
    nextId,      \* number of entries emitted so far
    requeued,    \* history: entries put back by a failed fetch in this lifetime
    last,        \* history: the handler that ran last and the send path it used
    offlineAt    \* history: entries emitted when the state last became OFFLINE in
                 \* this lifetime (0 while ONLINE)

\* The variables of the logger's buffering and shipping.
coreVars == <<logQueue, isOnline, isSending, logsToSend, storage, accepted,
              lifeBase, lifeFirst, beaconed, nextId, requeued, last, offlineAt>>

VARIABLES
    logLevel,         \* log.getLevel() of the loglevel root logger (1 debug .. 4 error)
    logMethod,        \* what log.debug/info/warn/error currently are
    originalMethods,  \* this.originalMethods: log's methods as bound by the constructor
    call              \* history: the last call of a logging method and what it did

levelVars == <<logLevel, logMethod, originalMethods, call>>

VARIABLES
    poison            \* the entries whose metadata JSON.stringify rejects

VARIABLES
    sessionStore,     \* sessionStorage[SESSION_ID_KEY] of the tab (0: key absent)
    sessionId,        \* this.sessionId
    sessionLog        \* history of the tab: ids generated, values returned,
                      \* entries created with the id they carry, envelope ids

sessVars == <<sessionStore, sessionId, sessionLog>>

VARIABLES
    requests          \* the API calls made through the axios instance `api`:
                      \* for each, where it stands and its config's _retry mark

VARIABLES
    authStore,        \* the state of useAuthStore: the credential and its refresh
    location          \* window.location as far as the API client sets it

apiVars == <<requests, authStore, location>>

auxVars == <<levelVars, poison, sessVars, apiVars>>

vars == <<coreVars, auxVars>>

-----------------------------------------------------------------------------
(* Sequence helpers *)

Range(s) == {s[i] : i \in 1..Len(s)}

\* Array.prototype.slice(-n) for n > 0: the last n elements (all when fewer).
SliceLast(s, n) == IF Len(s) <= n THEN s ELSE SubSeq(s, Len(s) - n + 1, Len(s))

IsPrefix(p, s) == Len(p) <= Len(s) /\ SubSeq(s, 1, Len(p)) = p

StrictlyIncreasing(s) == \A i, j \in 1..Len(s) : i < j => s[i] < s[j]

NoDuplicates(s) == \A i, j \in 1..Len(s) : i # j => s[i] # s[j]

-----------------------------------------------------------------------------
(***************************************************************************)
(* The logger's state as a record, so that a handler that calls several   *)
(* methods in one turn is the composition of their effects.               *)
(*   q, online, sending, batch, stor, beacon: the variables above         *)
(*   sent: the send path the current turn has used ("none" at its start)   *)
(*   bad: the entries JSON.stringify throws on; quota: localStorage.setItem *)
(*   throws in this turn; unreadable: reading the stored value throws      *)
(*   thrown: an exception is propagating; faults: the failures met so far  *)
(***************************************************************************)
NoFaults == [bad |-> {}, quota |-> FALSE, unreadable |-> FALSE]

Fresh(stor, beacon, online, env) ==
    [q |-> <<>>, online |-> online, sending |-> FALSE, batch |-> <<>>,
     stor |-> stor, beacon |-> beacon, sent |-> "none",
     bad |-> env.bad, quota |-> env.quota, unreadable |-> env.unreadable,
     thrown |-> FALSE, faults |-> {}]

Cur == [q |-> logQueue, online |-> isOnline, sending |-> isSending,
        batch |-> logsToSend, stor |-> storage, beacon |-> beaconed,
        sent |-> "none",
        bad |-> poison, quota |-> FALSE, unreadable |-> FALSE,
        thrown |-> FALSE, faults |-> {}]

\* JSON.stringify throws on a value that holds one of the bad entries.
Unserializable(entries, s) == Range(entries) \cap s.bad # {}

\* Variant of Handled: there is no catch block, the exception propagates.
NotHandled(s) == s

\* A catch block that reports to the console and does not rethrow
\* (logger.js:207-209, 219-221).
Handled(s) == [s EXCEPT !.thrown = FALSE]

\* What the teardown branch of flushLogs can meet: sendBeacon exists; it does
\* not and the synchronous XHR completes; it does not and xhr.send throws.
TeardownOutcomes == {"beacon", "xhr", "xhr_throws"}

\* Variant of LogsToStore: the oldest entries are kept instead of the newest.
LogsToStoreOldest(queue) ==
    IF Len(queue) <= MAX_STORED_LOGS THEN queue ELSE SubSeq(queue, 1, MAX_STORED_LOGS)

\* Variant of LogsToStore: the queue is stored without a limit.
LogsToStoreAll(queue) == queue

\* logger.js:216  this.logQueue.slice(-MAX_STORED_LOGS)
LogsToStore(queue) == SliceLast(queue, MAX_STORED_LOGS)

\* savePendingLogs: the new value of the storage key.
savePendingLogs(queue, stor) ==
    IF Len(queue) > 0 THEN LogsToStore(queue) ELSE stor

\* logger.js:214-218  the try block of savePendingLogs: JSON.stringify, setItem
savePendingLogsTry(s) ==
    IF Len(s.q) = 0 THEN s
    ELSE IF Unserializable(LogsToStore(s.q), s)
         THEN [s EXCEPT !.thrown = TRUE, !.faults = @ \cup {"stringify"}]
    ELSE IF s.quota
         THEN [s EXCEPT !.thrown = TRUE, !.faults = @ \cup {"write"}]
    ELSE [s EXCEPT !.stor = savePendingLogs(s.q, s.stor)]

\* Variant of Persisted: the entries written to localStorage leave the queue.
PersistedAndRemoved(s) == [Handled(savePendingLogsTry(s)) EXCEPT !.q = <<>>]

\* logger.js:212-222  savePendingLogs as a whole
Persisted(s) == Handled(savePendingLogsTry(s))

\* Variant of Requeue: the failed batch is put behind the newer entries.
RequeueBehind(batch, queue) == queue \o batch

\* logger.js:284  [...logsToSend, ...this.logQueue]
Requeue(batch, queue) == batch \o queue

\* Variant of FlushSkipped: a pending send does not hold a flush back.
FlushSkippedWhenEmpty(s) == Len(s.q) = 0

\* Variant of FlushSkipped: an empty queue does not stop the flush.
FlushSkippedWhenSending(s) == s.sending

\* logger.js:225  the guard of flushLogs
FlushSkipped(s) == s.sending \/ Len(s.q) = 0

\* Variant of Swapped: the queue is copied into the batch but not emptied.
SwappedNotEmptied(s) == [s EXCEPT !.sending = TRUE, !.batch = s.q]

\* logger.js:234-236  isSending = true; logsToSend = [...logQueue]; logQueue = []
Swapped(s) == [s EXCEPT !.sending = TRUE, !.batch = s.q, !.q = <<>>]

\* Variant of Caught: the failure is logged through the intercepted logger,
\* which appends an entry of the logger's own (0) to the queue.
CaughtLogsFailure(s) ==
    LET r == Persisted([s EXCEPT !.q = Append(Requeue(s.batch, s.q), 0)])
    IN  [r EXCEPT !.sending = FALSE, !.batch = <<>>]

\* Variant of Caught: the failed batch is dropped instead of re-added.
CaughtDropsBatch(s) ==
    [s EXCEPT !.stor = savePendingLogs(s.q, s.stor), !.sending = FALSE, !.batch = <<>>]

\* Variant of Caught: the re-formed queue is not mirrored to localStorage.
CaughtNoMirror(s) ==
    [s EXCEPT !.q = Requeue(s.batch, s.q), !.sending = FALSE, !.batch = <<>>]

\* logger.js:282-289  catch + finally of flushLogs
Caught(s) ==
    LET r == Persisted([s EXCEPT !.q = Requeue(s.batch, s.q)])
    IN  [r EXCEPT !.sending = FALSE, !.batch = <<>>]

\* Variant of Finished: the batch is re-added although the send succeeded.
FinishedRequeues(s) == Caught(s)

\* logger.js:287-289 after a try block that did not throw
Finished(s) == [s EXCEPT !.sending = FALSE, !.batch = <<>>]

\* flushLogs(synchronous) up to its first await (or to its end). td is the
\* outcome the teardown branch meets, read only when synchronous.  When
\* JSON.stringify rejects the batch, no request is made and the catch block
\* runs before any other handler.
flushLogs(s, synchronous, td) ==
    IF FlushSkipped(s) THEN s
    ELSE IF ~s.online THEN Persisted(s)
    ELSE LET w == Swapped(s)
         IN  IF Unserializable(w.batch, w)
             THEN Caught([w EXCEPT !.faults = @ \cup {"stringify"}])
             ELSE IF synchronous
             THEN IF td = "xhr_throws"
                  THEN Caught([w EXCEPT !.sent = "xhr", !.faults = @ \cup {"send"}])
                  ELSE Finished([w EXCEPT !.beacon = @ \o w.batch, !.sent = td])
             ELSE [w EXCEPT !.sent = "fetch"]

\* Variant of SizeTrigger: the flush comes one entry late.
SizeTriggerLate(queue) == Len(queue) > LOG_BATCH_SIZE

\* logger.js:157  the size trigger of addToQueue
SizeTrigger(queue) == Len(queue) >= LOG_BATCH_SIZE

\* Variant of addToQueue: an entry logged while a send is pending is dropped.
addToQueueUnlessSending(s, entry) ==
    LET s1 == [s EXCEPT !.q = Append(s.q, entry)]
    IN  IF s.sending THEN s
        ELSE IF SizeTrigger(s1.q) THEN flushLogs(s1, FALSE, "beacon") ELSE s1

\* addToQueue: push the new entry, flush when the threshold is reached.
addToQueue(s, entry) ==
    LET s1 == [s EXCEPT !.q = Append(s.q, entry)]
    IN  IF SizeTrigger(s1.q) THEN flushLogs(s1, FALSE, "beacon") ELSE s1

\* Variant of loadPendingLogs: the stored entries are loaded but the key stays.
loadPendingLogsKeepsKey(s) ==
    IF s.stor # <<>> THEN [s EXCEPT !.q = s.stor \o s.q] ELSE s

\* logger.js:199-206  the try block of loadPendingLogs: getItem, JSON.parse
loadPendingLogsTry(s) ==
    IF s.unreadable
    THEN [s EXCEPT !.thrown = TRUE, !.faults = @ \cup {"read"}]
    ELSE IF s.stor # <<>> THEN [s EXCEPT !.q = s.stor \o s.q, !.stor = <<>>] ELSE s

\* loadPendingLogs: stored entries go in front of the queue, the key is removed.
loadPendingLogs(s) == Handled(loadPendingLogsTry(s))

\* The constructor: fresh fields, loadPendingLogs, then the initialisation
\* entry; env is what the storage calls meet.
ConstructedFacing(stor, beacon, online, entry, env) ==
    addToQueue(loadPendingLogs(Fresh(stor, beacon, online, env)), entry)

\* The constructor when every storage call succeeds.
Constructed(stor, beacon, online, entry) ==
    ConstructedFacing(stor, beacon, online, entry, NoFaults)

\* Variant of onOnline: the flag is set but no flush is called.
onOnlineNoFlush(s) == [s EXCEPT !.online = TRUE]

\* The handlers registered by setupEventListeners and startBatchTimer.
onOnline(s) == flushLogs([s EXCEPT !.online = TRUE], FALSE, "beacon")

onOffline(s) == [s EXCEPT !.online = FALSE]

\* Variant of onBeforeUnload: the handler does not flush.
onBeforeUnloadNoFlush(s, td) == s

onBeforeUnload(s, td) == flushLogs(s, TRUE, td)

onHidden(s) == flushLogs(s, FALSE, "beacon")

onTick(s) == IF Len(s.q) > 0 THEN flushLogs(s, FALSE, "beacon") ELSE s

\* Write a logger state back to the variables, recording the handler's name.
Becomes(s, op) ==
    /\ logQueue' = s.q
    /\ isOnline' = s.online
    /\ isSending' = s.sending
    /\ logsToSend' = s.batch
    /\ storage' = s.stor
    /\ beaconed' = s.beacon
    /\ last' = [op |-> op, sent |-> s.sent, thrown |-> s.thrown, faults |-> s.faults]

-----------------------------------------------------------------------------
(* Severity levels.  log is the root logger of the loglevel package        *)
(* (logger.js:16); its setLevel rebuilds log.debug .. log.error: a method  *)
(* below the new level becomes a no-op, the others write to the console.   *)

\* debug, info, warn, error in loglevel's numbering
Methods == 1 .. 4

DEBUG == 1

INFO == 2

ERROR == 4

\* log.setLevel(level): the methods loglevel installs
Rebuilt(level) == [m \in Methods |-> IF m < level THEN "noop" ELSE "console"]

\* logger.js:81-92 setupInterceptors: every method becomes the interceptor
Intercepted == [m \in Methods |-> "interceptor"]

\* What a call of log[m] does, given the current methods and originalMethods:
\* the interceptor calls originalMethods[m], then addToQueue (logger.js:84-90).
Invoke(methods, original, m) ==
    IF methods[m] = "interceptor"
    THEN [echoed |-> original[m] = "console", appended |-> 1]
    ELSE [echoed |-> methods[m] = "console", appended |-> 0]

\* logger.js:33-46: log.setLevel, originalMethods bound, setupInterceptors
LevelsConstructed(isDev) ==
    /\ logLevel = (IF isDev THEN DEBUG ELSE INFO)
    /\ originalMethods = Rebuilt(logLevel)
    /\ logMethod = Intercepted
    /\ call = [op |-> "init", m |-> INFO, min |-> logLevel,
               echoed |-> TRUE, appended |-> 1]

-----------------------------------------------------------------------------
(* Session identity.  An id is modelled by its generation number: Date.now *)
(* with a random suffix (logger.js:75) is taken to be fresh each time.     *)

\* Variant of getOrCreateSessionId: the stored id is ignored.
getOrCreateSessionIdAlwaysNew(store, fresh) ==
    [id |-> fresh, store |-> fresh, generated |-> TRUE]

\* logger.js:71-79  the id returned, the stored value afterwards
getOrCreateSessionId(store, fresh) ==
    IF store = 0
    THEN [id |-> fresh, store |-> fresh, generated |-> TRUE]
    ELSE [id |-> store, store |-> store, generated |-> FALSE]

\* The history after a call of getOrCreateSessionId with result g.
Noted(slog, g) ==
    [slog EXCEPT !.generated = IF g.generated THEN @ + 1 ELSE @,
                 !.returned = @ \cup {g.id}]

\* The history after a handler that created entry e (0: none) with id sid
\* and used send path sent.
Carried(slog, e, sid, sent) ==
    [slog EXCEPT !.created = IF e = 0 THEN @ ELSE @ \cup {e},
                 !.carried = IF e = 0 THEN @ ELSE [@ EXCEPT ![e] = sid],
                 !.envelopes = IF sent = "none" THEN @ ELSE @ \cup {sid}]

\* The history of a tab that has just been opened.
NewTab(slog) ==
    [slog EXCEPT !.tabStart = slog.generated, !.reloads = 0, !.returned = {},
                 !.created = {}, !.envelopes = {}]

\* logger.js:28 and 57-68: the constructor in a tab whose store is empty
SessionConstructed ==
    LET g == getOrCreateSessionId(0, 1)
        blank == [generated |-> 0, tabStart |-> 0, reloads |-> 0, returned |-> {},
                  created |-> {}, envelopes |-> {},
                  carried |-> [e \in 1 .. MaxEntries |-> 0]]
    IN  /\ sessionStore = g.store
        /\ sessionId = g.id
        /\ sessionLog = Carried(Noted(blank, g), 1, g.id, "none")

-----------------------------------------------------------------------------
(***************************************************************************)
(* The API client: the axios instance `api` and its interceptors          *)
(* (src/unnamed/part_004, lines 139-322).  A call is a record:            *)
(*   phase: "idle" (not made yet), "sent" (dispatched, no response yet),  *)
(*          "refreshing" (its 401 handler awaits refreshAccessToken),     *)
(*          "resolved" / "rejected" (what the caller's promise became)    *)
(*   retry: config._retry; attempts: times dispatched; refreshes: times   *)
(*   its handler called refreshAccessToken; status: the last response     *)
(*   method, probe, params, data: the call as the caller made it (probe:  *)
(*   the url contains '/auth/status'; data: it has a body);               *)
(*   query: the keys of config.params as dispatched                       *)
(*   requestId: config.requestId (0: none); timings: the keys this call   *)
(*   has in requestTimings                                                 *)
(*   auth: the token in config.headers['Authorization'] (0: no header)    *)
(*   snapshot: accessToken of the store state read at the 401 (0: none)   *)
(*   refreshCall: the refresh call the 401 handler waits for              *)
(*   loggedAuth: the Authorization values the dispatch logs have carried  *)
(*   failLog, failKind, toast: level and heading of the failure log, and  *)
(*   the notification shown                                               *)
(***************************************************************************)
Requests == 1 .. MaxRequests

\* error.response is undefined and error.request is set: no response came.
NoResponse == 0

\* Neither error.response nor error.request: the adapter refused the config
\* (an AxiosError that carries the config).
NoRequest == 1

\* Neither error.response nor error.request nor error.config: an error thrown
\* while the request was prepared, after the request interceptor (axios'
\* transformRequest on data JSON.stringify rejects throws a plain TypeError).
Thrown == 2

\* A 2xx, the 401, another 4xx, a 5xx, no response, no request, a thrown error.
Responses == {200, 401, 404, 500, NoResponse, NoRequest, Thrown}

\* error.config is set
HasConfig(status) == status # Thrown

\* The calls of apiService (part_004:296-321) by method, target, parameters
\* and body: checkAuthStatus, a GET with caller parameters through api
\* itself, updateAuthSettings, and the calls that send the caller's data.
CallShapes ==
    { [method |-> "get", probe |-> TRUE, params |-> {}, data |-> FALSE],
      [method |-> "get", probe |-> FALSE, params |-> {"p"}, data |-> FALSE],
      [method |-> "put", probe |-> FALSE, params |-> {"p"}, data |-> FALSE],
      [method |-> "post", probe |-> FALSE, params |-> {}, data |-> TRUE] }

NotMade == [phase |-> "idle", retry |-> FALSE, attempts |-> 0, refreshes |-> 0,
            status |-> NoResponse,
            method |-> "get", probe |-> FALSE, params |-> {}, data |-> FALSE,
            query |-> {},
            requestId |-> 0, timings |-> {},
            auth |-> 0, snapshot |-> 0, refreshCall |-> 0,
            loggedAuth |-> {}, failLog |-> "none", failKind |-> "none",
            toast |-> "none"]

\* api(config) as the caller makes it
Made(shape) ==
    [NotMade EXCEPT !.method = shape.method, !.probe = shape.probe,
                    !.params = shape.params, !.data = shape.data,
                    !.query = shape.params]

\* requestTimings (part_004:153): ids are fresh, so the Map's keys are the
\* keys of the calls, told apart by the call.
TimingsOf(reqs) == UNION {{<<r, id>> : id \in reqs[r].timings} : r \in Requests}

\* Variant of NeedsRefresh: any client error starts a refresh.
NeedsRefreshOnClientError(status, retry) == status >= 400 /\ status <= 499 /\ ~retry

\* Variant of NeedsRefresh: the _retry mark is not consulted.
NeedsRefreshIgnoringMark(status, retry) == status = 401

\* part_004:239  error.response?.status === 401 && !originalRequest._retry
NeedsRefresh(status, retry) == status = 401 /\ ~retry

\* Variant of CacheDefeated: every method gets the parameter.
CacheDefeatedAlways(method) == TRUE

\* part_004:176  config.method === 'get'
CacheDefeated(method) == method = "get"

\* part_004:166-173  the dispatch log carries headers: config.headers
LoggedHeaders(r) == r.auth

\* part_004:155-183  the request interceptor: id, timing entry, dispatch log,
\* config.params = {...config.params, _t: Date.now()} for a GET; then the call
\* is dispatched
onRequest(r) ==
    LET id == r.attempts + 1
    IN  [r EXCEPT !.phase = "sent", !.attempts = id,
                  !.requestId = id, !.timings = @ \cup {id},
                  !.loggedAuth = @ \cup {LoggedHeaders(r)},
                  !.query = IF CacheDefeated(r.method) THEN @ \cup {"_t"} ELSE @]

\* part_004:197-202, 219-224  duration computed, requestTimings.delete(requestId)
Timed(r) == [r EXCEPT !.timings = @ \ {r.requestId}]

\* part_004:216-224  const requestId = originalRequest?.requestId; the entry is
\* looked up and deleted only `if (requestId && ...)`
TimedIfConfig(r, status) == IF HasConfig(status) THEN Timed(r) ELSE r

\* part_004:194-214  the response interceptor for a 2xx
onResponse(r, status) == [Timed(r) EXCEPT !.phase = "resolved", !.status = status]

\* Variant of FailLevel: every response with a status is logged at ERROR.
FailLevelAlwaysError(status) == "error"

\* part_004:265-269, 278, 282  the level of the failure log
FailLevel(status) ==
    IF status \in {NoResponse, NoRequest, Thrown} THEN "error"
    ELSE IF status >= 500 THEN "error"
    ELSE IF status >= 400 THEN "warn"
    ELSE "none"

\* Variant of FailKind: a missing response is not told from other errors.
FailKindNoNetwork(status) ==
    IF status \in {NoResponse, NoRequest, Thrown} THEN "unexpected"
    ELSE IF status >= 500 THEN "server"
    ELSE IF status >= 400 THEN "client"
    ELSE "none"

\* part_004:266, 268, 278, 282  what the failure is logged as: 'API Server
\* Error', 'API Client Error', 'API Network Error', 'API Unexpected Error'
FailKind(status) ==
    IF status = NoResponse THEN "network"
    ELSE IF status \in {NoRequest, Thrown} THEN "unexpected"
    ELSE IF status >= 500 THEN "server"
    ELSE IF status >= 400 THEN "client"
    ELSE "none"

\* Variant of Toast: the probe endpoint is not exempted.
ToastAlways(status, probe) ==
    IF status = NoResponse THEN "connection"
    ELSE IF status \in {NoRequest, Thrown} THEN "unexpected"
    ELSE "message"

\* part_004:271-274, 279, 286  the notification shown
Toast(status, probe) ==
    IF status = NoResponse THEN "connection"
    ELSE IF status \in {NoRequest, Thrown} THEN "unexpected"
    ELSE IF probe THEN "none" ELSE "message"

\* part_004:260-288  logging, notification, return Promise.reject(error)
onRejected(r) ==
    [r EXCEPT !.phase = "rejected", !.failLog = FailLevel(r.status),
              !.failKind = FailKind(r.status),
              !.toast = Toast(r.status, r.probe)]

\* part_004:215-246  the error handler up to `await authStore.refreshAccessToken()`;
\* token is the accessToken of the state useAuthStore.getState() returns.
onResponseError(r, status, token, pending) ==
    LET e == [TimedIfConfig(r, status) EXCEPT !.status = status]
    IN  IF NeedsRefresh(status, r.retry)
        THEN [e EXCEPT !.retry = TRUE, !.phase = "refreshing", !.refreshes = @ + 1,
                       !.snapshot = token, !.refreshCall = pending]
        ELSE onRejected(e)

\* part_004:251  headers['Authorization'] = `Bearer ${authStore.accessToken}`,
\* authStore being the state object obtained before the await
Reissued(r, current) == [r EXCEPT !.auth = r.snapshot]

\* Variant of onRefreshed: after a failed refresh the call is sent again.
onRefreshedReissuesAlways(r, success, current) == onRequest(Reissued(r, current))

\* part_004:246-258  after the await: `return api(originalRequest)` dispatches
\* the same config again (axios keeps its _retry key), or logout and fall through
onRefreshed(r, success, current) ==
    IF success THEN onRequest(Reissued(r, current)) ELSE onRejected(r)

(***************************************************************************)
(* useAuthStore (../stores/authStore) is not among the sources: it is     *)
(* modelled from its contract.  refresh() is single-flight: callers that  *)
(* arrive while a refresh is pending share it; success installs a new     *)
(* credential, failure clears it.  A state object returned by getState()  *)
(* is a value: a later update of the store does not change it.            *)
(*   accessToken: the credential (0: none); refreshing: a refresh is      *)
(*   pending; calls: refresh calls made to the backend; loggedOut         *)
(***************************************************************************)
LoggedIn == [accessToken |-> 1, refreshing |-> FALSE, calls |-> 0, loggedOut |-> FALSE]

\* authStore.refreshAccessToken() is called
refreshAccessToken(st) ==
    IF st.refreshing THEN st
    ELSE [st EXCEPT !.refreshing = TRUE, !.calls = @ + 1]

\* the pending refresh settles; a new credential is one never used before
refreshSettled(st, success) ==
    [st EXCEPT !.refreshing = FALSE,
               !.accessToken = IF success THEN st.calls + 1 ELSE 0]

\* authStore.logout()
logout(st) == [st EXCEPT !.accessToken = 0, !.loggedOut = TRUE]

-----------------------------------------------------------------------------
(* Initial state: a first visit (empty localStorage), after the constructor *)

CoreInit ==
    /\ isOnline \in BOOLEAN
    /\ logQueue = Constructed(<<>>, <<>>, isOnline, 1).q
    /\ isSending = Constructed(<<>>, <<>>, isOnline, 1).sending
    /\ logsToSend = Constructed(<<>>, <<>>, isOnline, 1).batch
    /\ storage = Constructed(<<>>, <<>>, isOnline, 1).stor
    /\ beaconed = <<>>
    /\ accepted = <<>>
    /\ lifeBase = 0
    /\ lifeFirst = 1
    /\ nextId = 1
    /\ requeued = {}
    /\ offlineAt = 0
    /\ last = [op |-> "init", sent |-> Constructed(<<>>, <<>>, isOnline, 1).sent,
               thrown |-> FALSE, faults |-> {}]

\* A development build: every method passes the threshold.
Init ==
    /\ CoreInit
    /\ LevelsConstructed(TRUE)
    /\ poison = {}
    /\ SessionConstructed
    /\ requests = [r \in Requests |-> NotMade]
    /\ authStore = LoggedIn
    /\ location = "/"

-----------------------------------------------------------------------------
(* Actions *)

\* log.debug / info / warn / error through the interceptor: addToQueue.
Log ==
    /\ nextId < MaxEntries
    /\ nextId' = nextId + 1
    /\ Becomes(addToQueue(Cur, nextId + 1), "log")
    /\ UNCHANGED <<accepted, lifeBase, lifeFirst, requeued, offlineAt>>
    /\ UNCHANGED auxVars

\* The setInterval callback of startBatchTimer.
Tick ==
    /\ Becomes(onTick(Cur), "tick")
    /\ UNCHANGED <<accepted, lifeBase, lifeFirst, nextId, requeued, offlineAt>>
    /\ UNCHANGED auxVars

\* window 'online'
Online ==
    /\ ~isOnline
    /\ Becomes(onOnline(Cur), "online")
    /\ offlineAt' = 0
    /\ UNCHANGED <<accepted, lifeBase, lifeFirst, nextId, requeued>>
    /\ UNCHANGED auxVars

\* window 'offline'
Offline ==
    /\ isOnline
    /\ Becomes(onOffline(Cur), "offline")
    /\ offlineAt' = nextId
    /\ UNCHANGED <<accepted, lifeBase, lifeFirst, nextId, requeued>>
    /\ UNCHANGED auxVars

\* document 'visibilitychange' with document.hidden
Hidden ==
    /\ Becomes(onHidden(Cur), "hidden")
    /\ UNCHANGED <<accepted, lifeBase, lifeFirst, nextId, requeued, offlineAt>>
    /\ UNCHANGED auxVars

\* window 'beforeunload'
BeforeUnload ==
    \E td \in TeardownOutcomes :
        /\ Becomes(onBeforeUnload(Cur, td), "teardown")
        /\ UNCHANGED <<accepted, lifeBase, lifeFirst, nextId, requeued, offlineAt>>
        /\ UNCHANGED auxVars
    /\ UNCHANGED auxVars

\* The pending fetch resolves with a 2xx response: the collector has the batch.
SendOk ==
    /\ isSending
    /\ accepted' = accepted \o logsToSend
    /\ Becomes(Finished(Cur), "ok")
    /\ UNCHANGED <<lifeBase, lifeFirst, nextId, requeued, offlineAt>>
    /\ UNCHANGED auxVars

\* The pending fetch rejects or resolves with a non-2xx response.
SendFail ==
    /\ isSending
    /\ Becomes(Caught([Cur EXCEPT !.faults = {"send"}]), "fail")
    /\ requeued' = requeued \cup Range(logsToSend)
    /\ UNCHANGED <<accepted, lifeBase, lifeFirst, nextId, offlineAt>>
    /\ UNCHANGED auxVars

\* The page goes away and is loaded again: memory is lost, localStorage stays,
\* the constructor runs.  A fetch still pending may or may not have reached
\* the collector.
Restart ==
    /\ nextId < MaxEntries
    /\ nextId' = nextId + 1
    /\ \E arrived \in (IF isSending THEN BOOLEAN ELSE {FALSE}) :
          accepted' = IF arrived THEN accepted \o logsToSend ELSE accepted
    /\ lifeBase' = Len(accepted')
    /\ lifeFirst' = nextId + 1
    /\ requeued' = {}
    /\ \E online \in BOOLEAN :
          /\ Becomes(Constructed(storage, beaconed, online, nextId + 1), "restart")
          /\ offlineAt' = IF online THEN 0 ELSE nextId
    /\ UNCHANGED auxVars

Next ==
    \/ Log
    \/ Tick
    \/ Online
    \/ Offline
    \/ Hidden
    \/ BeforeUnload
    \/ SendOk
    \/ SendFail
    \/ Restart

Spec == Init /\ [][Next]_vars

-----------------------------------------------------------------------------
(* Severity levels: calls of the logging methods at each level, setLevel *)

\* logger.debug / info / warn / error (logger.js:293-307): log[m](...args)
LogCall ==
    \E m \in Methods :
        LET r == Invoke(logMethod, originalMethods, m)
        IN  /\ call' = [op |-> "log", m |-> m, min |-> logLevel,
                        echoed |-> r.echoed, appended |-> r.appended]
            /\ IF r.appended = 1
               THEN /\ nextId < MaxEntries
                    /\ nextId' = nextId + 1
                    /\ Becomes(addToQueue(Cur, nextId + 1), "log")
                    /\ UNCHANGED <<accepted, lifeBase, lifeFirst, requeued, offlineAt>>
               ELSE UNCHANGED coreVars
            /\ UNCHANGED <<logLevel, logMethod, originalMethods, poison, sessVars, apiVars>>

\* logger.setLevel(level) (logger.js:310-313): log.setLevel, then this.info
SetLevel ==
    \E level \in Methods :
        LET r == Invoke(Rebuilt(level), originalMethods, INFO)
        IN  /\ logLevel' = level
            /\ logMethod' = Rebuilt(level)
            /\ call' = [op |-> "setLevel", m |-> INFO, min |-> level,
                        echoed |-> r.echoed, appended |-> r.appended]
            /\ UNCHANGED <<originalMethods, poison, sessVars, apiVars>>
            /\ UNCHANGED coreVars

\* window 'error' and 'unhandledrejection' (logger.js:122-139): the listener
\* calls this.error(...), that is log.error(...), and returns; it neither
\* calls event.preventDefault() nor throws.
UncaughtError ==
    \E event \in {"error", "unhandledrejection"} :
        LET r == Invoke(logMethod, originalMethods, ERROR)
        IN  /\ call' = [op |-> event, m |-> ERROR, min |-> logLevel,
                        echoed |-> r.echoed, appended |-> r.appended]
            /\ IF r.appended = 1
               THEN /\ nextId < MaxEntries
                    /\ nextId' = nextId + 1
                    /\ Becomes(addToQueue(Cur, nextId + 1), "log")
                    /\ UNCHANGED <<accepted, lifeBase, lifeFirst, requeued, offlineAt>>
               ELSE UNCHANGED coreVars
            /\ UNCHANGED <<logLevel, logMethod, originalMethods, poison, sessVars, apiVars>>

\* A production or a development build (import.meta.env.DEV)
InitLevels ==
    /\ CoreInit
    /\ \E isDev \in BOOLEAN : LevelsConstructed(isDev)
    /\ poison = {}
    /\ SessionConstructed
    /\ requests = [r \in Requests |-> NotMade]
    /\ authStore = LoggedIn
    /\ location = "/"

NextLevels ==
    \/ LogCall
    \/ SetLevel
    \/ UncaughtError
    \/ Tick
    \/ SendOk
    \/ SendFail

SpecLevels == InitLevels /\ [][NextLevels]_vars

-----------------------------------------------------------------------------
(* One page lifetime with entries that may be unserialisable, under the    *)
(* scheduling the browser gives: the interval timer keeps firing, the      *)
(* 'online' event arrives while the state is OFFLINE, and the collector    *)
(* answers 2xx to one of the requests it keeps receiving.                  *)

\* A logging call whose metadata JSON.stringify may reject (a cyclic object,
\* a BigInt): extractMetadata copies the last argument as it is
\* (logger.js:176-188).
LogAny ==
    \E isBad \in BOOLEAN :
        /\ nextId < MaxEntries
        /\ nextId' = nextId + 1
        /\ poison' = IF isBad THEN poison \cup {nextId + 1} ELSE poison
        /\ Becomes(addToQueue([Cur EXCEPT !.bad = poison'], nextId + 1), "log")
        /\ UNCHANGED <<accepted, lifeBase, lifeFirst, requeued, offlineAt, levelVars, sessVars, apiVars>>

NextLive ==
    \/ LogAny
    \/ Tick
    \/ Online
    \/ Offline
    \/ SendOk
    \/ SendFail

FairLive ==
    /\ WF_vars(Tick)
    /\ WF_vars(Online)
    /\ SF_vars(SendOk)

SpecLive == Init /\ [][NextLive]_vars /\ FairLive

-----------------------------------------------------------------------------
(* Failures of storage and of sending met by every handler, while the     *)
(* collector accepts nothing                                               *)

\* The logger's state in a turn in which localStorage.setItem throws or not.
Facing(quota) == [Cur EXCEPT !.quota = quota]

LogFacing ==
    \E isBad \in BOOLEAN, quota \in BOOLEAN :
        /\ nextId < MaxEntries
        /\ nextId' = nextId + 1
        /\ poison' = IF isBad THEN poison \cup {nextId + 1} ELSE poison
        /\ Becomes(addToQueue([Facing(quota) EXCEPT !.bad = poison'], nextId + 1), "log")
        /\ UNCHANGED <<accepted, lifeBase, lifeFirst, requeued, offlineAt, levelVars, sessVars, apiVars>>

TickFacing ==
    \E quota \in BOOLEAN :
        /\ Becomes(onTick(Facing(quota)), "tick")
        /\ UNCHANGED <<accepted, lifeBase, lifeFirst, nextId, requeued, offlineAt>>
        /\ UNCHANGED auxVars

BeforeUnloadFacing ==
    \E td \in TeardownOutcomes, quota \in BOOLEAN :
        /\ Becomes(onBeforeUnload(Facing(quota), td), "teardown")
        /\ UNCHANGED <<accepted, lifeBase, lifeFirst, nextId, requeued, offlineAt>>
        /\ UNCHANGED auxVars

SendFailFacing ==
    \E quota \in BOOLEAN :
        /\ isSending
        /\ Becomes(Caught([Facing(quota) EXCEPT !.faults = {"send"}]), "fail")
        /\ requeued' = requeued \cup Range(logsToSend)
        /\ UNCHANGED <<accepted, lifeBase, lifeFirst, nextId, offlineAt>>
        /\ UNCHANGED auxVars

\* A reload in which reading the stored backlog may throw (getItem refused,
\* JSON.parse on a damaged value).  The collector is down: a fetch still
\* pending is lost.
RestartFacing ==
    /\ nextId < MaxEntries
    /\ nextId' = nextId + 1
    /\ requeued' = {}
    /\ UNCHANGED <<accepted, lifeBase, lifeFirst>>
    /\ \E online \in BOOLEAN, quota \in BOOLEAN, unreadable \in BOOLEAN :
          /\ Becomes(ConstructedFacing(storage, beaconed, online, nextId + 1,
                                       [bad |-> poison, quota |-> quota,
                                        unreadable |-> unreadable]),
                     "restart")
          /\ offlineAt' = IF online THEN 0 ELSE nextId
    /\ UNCHANGED auxVars

NextFaults ==
    \/ LogFacing
    \/ TickFacing
    \/ Online
    \/ Offline
    \/ BeforeUnloadFacing
    \/ SendFailFacing
    \/ RestartFacing

SpecFaults == Init /\ [][NextFaults]_vars

-----------------------------------------------------------------------------
(* Session identity over the reloads of a tab and over new tabs *)

\* A logging call: the entry carries this.sessionId (logger.js:147); the
\* envelope of a flush it triggers carries it too (logger.js:247).
LogSession ==
    /\ nextId < MaxEntries
    /\ nextId' = nextId + 1
    /\ Becomes(addToQueue(Cur, nextId + 1), "log")
    /\ sessionLog' = Carried(sessionLog, nextId + 1, sessionId, last'.sent)
    /\ UNCHANGED <<accepted, lifeBase, lifeFirst, requeued, offlineAt>>
    /\ UNCHANGED <<sessionStore, sessionId, levelVars, poison, apiVars>>

\* The timer callback; the envelope carries this.sessionId.
TickSession ==
    /\ Becomes(onTick(Cur), "tick")
    /\ sessionLog' = Carried(sessionLog, 0, sessionId, last'.sent)
    /\ UNCHANGED <<accepted, lifeBase, lifeFirst, nextId, requeued, offlineAt>>
    /\ UNCHANGED <<sessionStore, sessionId, levelVars, poison, apiVars>>

\* The application calls logger.getOrCreateSessionId().
GetSessionId ==
    LET g == getOrCreateSessionId(sessionStore, sessionLog.generated + 1)
    IN  /\ sessionLog.generated < MaxEntries
        /\ sessionStore' = g.store
        /\ sessionLog' = Noted(sessionLog, g)
        /\ UNCHANGED <<coreVars, sessionId, levelVars, poison, apiVars>>

\* The page is loaded again, in the same tab (sessionStorage is kept) or in a
\* new one (sessionStorage is empty); localStorage is shared.
LoadSession ==
    \E newTab \in BOOLEAN, online \in BOOLEAN :
        LET g == getOrCreateSessionId(IF newTab THEN 0 ELSE sessionStore,
                                      sessionLog.generated + 1)
            old == IF newTab THEN NewTab(sessionLog)
                   ELSE [sessionLog EXCEPT !.reloads = @ + 1]
        IN  /\ nextId < MaxEntries
            /\ nextId' = nextId + 1
            /\ lifeBase' = Len(accepted)
            /\ lifeFirst' = nextId + 1
            /\ requeued' = {}
            /\ Becomes(Constructed(storage, beaconed, online, nextId + 1), "restart")
            /\ offlineAt' = IF online THEN 0 ELSE nextId
            /\ sessionStore' = g.store
            /\ sessionId' = g.id
            /\ sessionLog' = Carried(Noted(old, g), nextId + 1, g.id, last'.sent)
            /\ UNCHANGED <<accepted, levelVars, poison, apiVars>>

NextSession ==
    \/ LogSession
    \/ TickSession
    \/ GetSessionId
    \/ LoadSession
    \/ SendOk
    \/ SendFail

SpecSession == Init /\ [][NextSession]_vars

-----------------------------------------------------------------------------
(* API calls.  The interceptors' own logging calls are Log steps of the    *)
(* logger and are not repeated here: the logger stays as constructed; what *)
(* they log is kept in the call's record.                                  *)

\* The application calls api(config) (apiService.*, part_004:296-321).
ApiCall ==
    \E r \in Requests, shape \in CallShapes :
        /\ requests[r].phase = "idle"
        /\ requests[r].attempts < MaxAttempts
        /\ requests' = [requests EXCEPT ![r] = onRequest(Made(shape))]
        /\ UNCHANGED <<authStore, location>>
        /\ UNCHANGED <<coreVars, levelVars, poison, sessVars>>

\* The server answers a dispatched call, or the call ends without a response
\* (a timeout at the 30 s ceiling included) or without having been made; only
\* a call with a body can fail on its data.
ApiResponse ==
    \E r \in Requests, status \in Responses :
        LET after == IF status = 200 THEN onResponse(requests[r], status)
                     ELSE onResponseError(requests[r], status, authStore.accessToken,
                                          refreshAccessToken(authStore).calls)
        IN  /\ requests[r].phase = "sent"
            /\ status = Thrown => requests[r].data
            /\ requests' = [requests EXCEPT ![r] = after]
            /\ authStore' = IF after.phase = "refreshing"
                            THEN refreshAccessToken(authStore) ELSE authStore
            /\ UNCHANGED location
            /\ UNCHANGED <<coreVars, levelVars, poison, sessVars>>

\* The pending refresh settles with true or false; the handlers that await
\* it continue, one after the other, before any other event is handled.
ApiRefreshed ==
    \E success \in BOOLEAN :
        LET waiting == {r \in Requests : requests[r].phase = "refreshing"}
            settled == refreshSettled(authStore, success)
        IN  /\ authStore.refreshing
            /\ success => \A r \in waiting : requests[r].attempts < MaxAttempts
            /\ requests' = [r \in Requests |->
                              IF r \in waiting
                              THEN onRefreshed(requests[r], success, settled.accessToken)
                              ELSE requests[r]]
            /\ authStore' = IF success THEN settled ELSE logout(settled)
            /\ location' = IF success THEN location ELSE "/login"
            /\ UNCHANGED <<coreVars, levelVars, poison, sessVars>>

NextApi ==
    \/ ApiCall
    \/ ApiResponse
    \/ ApiRefreshed

\* The page as loaded with the browser online: the API client is constructed
\* with the module (part_004:143-153), no call made, the store logged in.
InitApi == Init /\ isOnline

SpecApi == InitApi /\ [][NextApi]_vars

-----------------------------------------------------------------------------
(* Properties *)

\* The entries the collector has acknowledged in the current page lifetime.
LifetimeAccepted == SubSeq(accepted, lifeBase + 1, Len(accepted))

\* C1: within a page lifetime, whatever the interleaving of log calls, ticks,
\* connectivity events and send outcomes, the concatenation of the batches the
\* collector accepted lists the entries in emission order (strictly increasing
\* emission numbers), also after failed sends were re-queued.
C1_OrderPreserved == StrictlyIncreasing(LifetimeAccepted)

\* C1 witness: the collector has accepted an entry that had been re-queued
\* after a failed send, followed by an entry that never was.
C1_Witness ==
    \E i, j \in 1..Len(LifetimeAccepted) :
        /\ i < j
        /\ LifetimeAccepted[i] \in requeued
        /\ LifetimeAccepted[j] \notin requeued

\* C2: a failed fetch leaves the queue equal to the failed batch followed by
\* the entries appended while it was in flight (nothing dropped, nothing
\* added); a fetch that starts takes the whole queue in order, and a 2xx
\* answer hands exactly that batch to the collector, so the next successful
\* shipment carries the failed batch followed by the entries logged since.
C2_FailedBatchRequeuedInFront ==
    [][ /\ (last'.op = "fail" =>
               /\ logQueue' = logsToSend \o logQueue
               /\ ~isSending'
               /\ last'.sent = "none")
        /\ (last'.op \in {"tick", "hidden", "online"} /\ last'.sent = "fetch" =>
               /\ logsToSend' = logQueue
               /\ logQueue' = <<>>)
        /\ (last'.op = "log" /\ last'.sent = "fetch" =>
               /\ logsToSend' = Append(logQueue, nextId')
               /\ logQueue' = <<>>)
        /\ (last'.op = "ok" => accepted' = accepted \o logsToSend)
      ]_vars

\* C2 witness: a fetch has just failed and the queue holds the failed batch
\* in front of an entry logged while the fetch was in flight.
C2_Witness ==
    /\ last.op = "fail"
    /\ Len(logQueue) >= 2
    /\ logQueue[1] \in requeued
    /\ logQueue[Len(logQueue)] \notin requeued

\* C3: right after a failed fetch localStorage holds the re-formed queue in
\* order, cut to its MAX_STORED_LOGS newest entries: the whole queue, failed
\* batch included, when it has at most MAX_STORED_LOGS entries; a reload then
\* finds those entries at the front of the new queue.
C3_FailedBatchMirrored ==
    [][ /\ (last'.op = "fail" =>
               /\ storage' = SliceLast(logQueue', MAX_STORED_LOGS)
               /\ (Len(logQueue') <= MAX_STORED_LOGS =>
                       /\ storage' = logQueue'
                       /\ IsPrefix(logsToSend, storage')))
        /\ (last'.op = "restart" =>
               IsPrefix(storage, logsToSend' \o logQueue'))
      ]_vars

\* C3 witness: after a failed fetch the backlog equals the queue, which holds
\* the failed batch and an entry logged in between.
C3_Witness ==
    /\ last.op = "fail"
    /\ storage = logQueue
    /\ Len(logQueue) >= 2
    /\ logQueue[1] \in requeued
    /\ logQueue[Len(logQueue)] \notin requeued

\* C4: a flush that starts a fetch moves the whole queue into the batch in
\* one turn and leaves the queue empty; a log call made while the fetch is
\* pending lands in the queue and leaves the batch as it was; the batch and
\* the queue never share an entry.
C4_AtomicSwap ==
    [][ /\ (last'.sent = "fetch" => logQueue' = <<>> /\ isSending' /\ logsToSend' # <<>>)
        /\ (isSending /\ last'.op = "log" =>
               /\ logsToSend' = logsToSend
               /\ logQueue' = Append(logQueue, nextId')
               /\ isSending')
        /\ (isSending' => Range(logsToSend') \cap Range(logQueue') = {})
      ]_vars

\* C4 witness: a fetch is pending and a log call has just put an entry into
\* the fresh queue.
C4_Witness ==
    /\ isSending
    /\ last.op = "log"
    /\ logQueue # <<>>
    /\ logsToSend # <<>>

\* Entries that have left the client: acknowledged by the collector or handed
\* to the teardown path.
Shipped == Range(accepted) \cup Range(beaconed)

\* The handlers that call flushLogs on a non-empty queue whatever its length.
FlushOps == {"tick", "hidden", "teardown"}

\* C5 (as claimed): whenever flushLogs is called while OFFLINE on a non-empty
\* queue, by the timer, the page-hidden handler or the teardown handler, it
\* starts no send on either path and afterwards localStorage holds the
\* pending entries in order (the MAX_STORED_LOGS newest when there are more),
\* and no entry that was stored before and has not been shipped is lost.
C5_OfflineFlushPersists ==
    [][ (~isOnline /\ last'.op \in FlushOps /\ logQueue # <<>>) =>
            /\ last'.sent = "none"
            /\ logsToSend' = logsToSend
            /\ isSending' = isSending
            /\ beaconed' = beaconed
            /\ storage' = SliceLast(logQueue, MAX_STORED_LOGS)
            /\ \A e \in Range(storage) :
                   (e \notin Shipped /\ Len(logQueue) <= MAX_STORED_LOGS)
                       => e \in Range(storage')
      ]_vars

C7_BacklogBounded == Len(storage) <= MAX_STORED_LOGS

\* C7 witness: the backlog is full while the queue it was written from is
\* longer than the capacity.
C7_Witness ==
    /\ Len(storage) = MAX_STORED_LOGS
    /\ Len(logQueue) > MAX_STORED_LOGS

\* C8 (as claimed): every log call that brings the queue length to the
\* threshold starts, in that call, a shipment of the queued entries.
C8_SizeTriggerAlwaysShips ==
    [][ (last'.op = "log" /\ Len(logQueue) + 1 >= LOG_BATCH_SIZE) =>
            /\ last'.sent = "fetch"
            /\ logsToSend' = Append(logQueue, nextId')
      ]_vars

\* C8 (amended): a log call that brings the queue length to the threshold
\* while ONLINE with no fetch pending starts in that call a fetch carrying
\* the whole queue, new entry included; a log call while OFFLINE, while a
\* fetch is pending, or below the threshold starts no shipment.
C8_SizeTriggerShipsWhenIdleOnline ==
    [][ last'.op = "log" =>
            IF isOnline /\ ~isSending /\ Len(logQueue) + 1 >= LOG_BATCH_SIZE
            THEN /\ last'.sent = "fetch"
                 /\ isSending'
                 /\ logsToSend' = Append(logQueue, nextId')
                 /\ logQueue' = <<>>
            ELSE /\ last'.sent = "none"
                 /\ logsToSend' = logsToSend
                 /\ isSending' = isSending
                 /\ logQueue' = Append(logQueue, nextId')
      ]_vars

\* C8 witness: a log call has just started a fetch of a batch of threshold
\* size.
C8_Witness ==
    /\ last.op = "log"
    /\ last.sent = "fetch"
    /\ isSending
    /\ Len(logsToSend) >= LOG_BATCH_SIZE

\* C9 (as claimed): once the 'online' handler and then the next timer tick
\* have run, every entry that was pending is in a shipment (none is still
\* waiting in the queue).
C9_ReconnectShipsByNextTick ==
    [][ (last.op = "online" /\ last'.op = "tick") => logQueue' = <<>> ]_vars

\* C9 (amended): the 'online' handler sets the state to ONLINE and calls
\* flushLogs in the same turn; with no fetch pending it puts every pending
\* entry into a fetch at once; with a fetch pending it starts nothing and
\* the pending entries stay in the queue.
C9_ReconnectFlushesWhenIdle ==
    [][ last'.op = "online" =>
            /\ isOnline'
            /\ IF isSending
               THEN /\ last'.sent = "none"
                    /\ logQueue' = logQueue
                    /\ logsToSend' = logsToSend
                    /\ isSending'
               ELSE /\ logQueue' = <<>>
                    /\ logsToSend' = logQueue
                    /\ isSending' = (logQueue # <<>>)
                    /\ last'.sent = (IF logQueue # <<>> THEN "fetch" ELSE "none")
      ]_vars

\* C9 witness: the 'online' handler has just started a fetch of the entries
\* that were pending.
C9_Witness ==
    /\ last.op = "online"
    /\ last.sent = "fetch"
    /\ isSending
    /\ logsToSend # <<>>
    /\ logQueue = <<>>

\* C10 (as claimed): the 'offline' handler changes the connectivity flag and
\* nothing else (queue, backlog, batch and shipments untouched, no send);
\* and every flushLogs call on a non-empty queue while OFFLINE writes the
\* queue to the backlog and sends nothing.
C10_OfflineOnlyDegradesFlush ==
    [][ /\ (last'.op = "offline" =>
               /\ ~isOnline'
               /\ last'.sent = "none"
               /\ UNCHANGED <<logQueue, storage, logsToSend, isSending,
                              accepted, beaconed>>)
        /\ (~isOnline /\ last'.op \in FlushOps /\ logQueue # <<>> =>
               /\ last'.sent = "none"
               /\ logQueue' = logQueue
               /\ storage' = LogsToStore(logQueue))
      ]_vars

\* C11 (as claimed): after the constructor has run on a reload, the entries
\* the backlog held are at the front of the queue in stored order, the
\* initialisation entry behind them, and the backlog is empty.
C11_LoadedToQueueFrontBacklogEmpty ==
    [][ last'.op = "restart" =>
            /\ storage' = <<>>
            /\ logQueue' = storage \o <<nextId'>>
      ]_vars

\* C11 (amended): the constructor loads the backlog once and removes the key;
\* the former entries, in stored order, are ahead of the initialisation entry
\* among the pending entries.  When they and the initialisation entry reach
\* LOG_BATCH_SIZE, the constructor's own size-triggered flush has moved them
\* all into the first fetch (ONLINE) or has written the MAX_STORED_LOGS newest
\* of them back to the backlog (OFFLINE); otherwise they are at the front of
\* the queue and the backlog is empty.
C11_LoadedOnceInFront ==
    [][ last'.op = "restart" =>
            LET all == storage \o <<nextId'>>
            IN  /\ logsToSend' \o logQueue' = all
                /\ IF Len(all) >= LOG_BATCH_SIZE
                   THEN IF isOnline'
                        THEN /\ logQueue' = <<>>
                             /\ isSending'
                             /\ storage' = <<>>
                        ELSE /\ logQueue' = all
                             /\ ~isSending'
                             /\ storage' = SliceLast(all, MAX_STORED_LOGS)
                   ELSE /\ logQueue' = all
                        /\ ~isSending'
                        /\ storage' = <<>>
      ]_vars

\* C11 witness: a reload has just put stored entries in front of the
\* initialisation entry in the queue and left the backlog empty.
C11_Witness ==
    /\ last.op = "restart"
    /\ Len(logQueue) >= 2
    /\ logQueue[Len(logQueue)] = nextId
    /\ storage = <<>>
    /\ ~isSending

\* The entries handed to the teardown path by the step now being taken.
NewlyBeaconed == SubSeq(beaconed', Len(beaconed) + 1, Len(beaconed'))

\* C13 (as claimed): the teardown handler, run while ONLINE on a non-empty
\* queue, hands the whole queue to the teardown path (sendBeacon or its XHR
\* fallback) in its own turn, never starts the awaited fetch and leaves
\* nothing pending; every other handler never uses the teardown path.
C13_TeardownUsesBeaconOnly ==
    [][ /\ (last'.op = "teardown" /\ isOnline /\ logQueue # <<>> =>
               /\ last'.sent \in {"beacon", "xhr"}
               /\ isSending' = isSending
               /\ \/ NewlyBeaconed = logQueue /\ logQueue' = <<>>
                  \/ NewlyBeaconed = <<>> /\ logQueue' = logQueue /\ last'.sent = "xhr")
        /\ (last'.op = "teardown" => last'.sent # "fetch")
        /\ (last'.op # "teardown" =>
               /\ last'.sent \in {"none", "fetch"}
               /\ beaconed' = beaconed)
      ]_vars

\* C14: when the teardown handler has run while OFFLINE with no fetch
\* pending, the backlog holds the queue in emission order: all of it when it
\* fits, entries logged before the connection was lost ahead of those logged
\* after.
C14_OfflineTeardownBacklog ==
    (last.op = "teardown" /\ ~isOnline /\ ~isSending /\ logQueue # <<>>) =>
        /\ storage = SliceLast(logQueue, MAX_STORED_LOGS)
        /\ StrictlyIncreasing(storage)
        /\ (Len(logQueue) <= MAX_STORED_LOGS => storage = logQueue)

\* C14 witness: nothing was shipped in this lifetime, entries were logged
\* while ONLINE, the connection was lost, another entry was logged, the
\* teardown handler ran: the backlog holds them all, in that order.
C14_Witness ==
    /\ last.op = "teardown"
    /\ ~isOnline
    /\ ~isSending
    /\ LifetimeAccepted = <<>>
    /\ requeued = {}
    /\ storage = logQueue
    /\ Len(storage) >= 3
    /\ storage[Len(storage) - 1] <= offlineAt
    /\ storage[Len(storage)] > offlineAt

\* C15: within a lifetime an entry the collector has acknowledged is never
\* again in the queue, in a batch being sent or in a later hand-off, and is
\* acknowledged once.
C15_AcknowledgedBatchDiscarded ==
    [][ /\ (last'.op = "ok" =>
               /\ accepted' = accepted \o logsToSend
               /\ logQueue' = logQueue
               /\ logsToSend' = <<>>
               /\ storage' = storage)
        /\ (last'.op # "restart" =>
               /\ Range(LifetimeAccepted') \cap
                      (Range(logQueue') \cup Range(logsToSend') \cup Range(NewlyBeaconed)) = {}
               /\ NoDuplicates(LifetimeAccepted'))
      ]_vars

\* C15 witness: a batch has just been acknowledged while newer entries wait
\* in the queue.
C15_Witness ==
    /\ last.op = "ok"
    /\ LifetimeAccepted # <<>>
    /\ logQueue # <<>>

\* C17: the timer callback does nothing on an empty queue and flushes a
\* non-empty one (a fetch of the whole queue when ONLINE with none pending);
\* no handler ever ships an empty batch on either path.
C17_NoEmptyShipment ==
    [][ /\ (last'.op = "tick" /\ logQueue = <<>> =>
               UNCHANGED <<logQueue, logsToSend, isSending, storage, beaconed>>)
        /\ (last'.op = "tick" /\ logQueue # <<>> /\ isOnline /\ ~isSending =>
               /\ last'.sent = "fetch"
               /\ logsToSend' = logQueue)
        /\ (last'.sent = "fetch" => logsToSend' # <<>>)
        /\ (last'.sent = "beacon" => NewlyBeaconed # <<>>)
        /\ (last'.sent = "xhr" => NewlyBeaconed # <<>> \/ logQueue' # <<>>)
        /\ (isSending' => logsToSend' # <<>>)
      ]_vars

\* C17 witness: the timer callback has just started a fetch of a non-empty
\* queue.
C17_Witness ==
    /\ last.op = "tick"
    /\ last.sent = "fetch"
    /\ logsToSend # <<>>

\* C12 (as claimed): a call of a logging method below the minimum severity
\* in force appends nothing and echoes nothing; a call at or above it appends
\* exactly one entry.
C12_BelowThresholdDropped ==
    call.op = "log" =>
        IF call.m < call.min
        THEN call.appended = 0 /\ ~call.echoed
        ELSE call.appended = 1

\* C16 (as claimed): in a lifetime that is not torn down, with the timer
\* firing, the connection coming back and the collector answering 2xx, every
\* entry that is pending is eventually in an acknowledged batch.
C16_EventuallyAccepted ==
    \A e \in 1 .. MaxEntries :
        (e \in Range(logQueue) \cup Range(logsToSend)) ~> (e \in Range(accepted))

\* C19: no handler ends with an exception propagating out of it or with the
\* promise of the flush it started rejected, whatever failed: the request,
\* the serialisation of the batch, a write or a read of the backlog.
C19_FailuresContained == ~last.thrown

\* C19 witness: a request has failed and the write of the backlog in its
\* catch block has failed too; the batch is back in the queue.
C19_Witness ==
    /\ last.op = "fail"
    /\ last.faults = {"send", "write"}
    /\ ~isSending
    /\ logQueue # <<>>

\* C18: in a tab's lifetime at most one id is generated, every call of
\* getOrCreateSessionId has returned it, and every entry created and every
\* envelope sent in that lifetime carries it.
C18_OneSessionIdentity ==
    /\ sessionLog.generated - sessionLog.tabStart <= 1
    /\ sessionLog.returned = {sessionId}
    /\ \A e \in sessionLog.created : sessionLog.carried[e] = sessionId
    /\ sessionLog.envelopes \subseteq {sessionId}

\* C18 witness: the tab has been reloaded; entries created before and after
\* the reload carry the id and an envelope has been sent with it.
C18_Witness ==
    /\ sessionLog.reloads >= 1
    /\ Cardinality(sessionLog.created) >= 3
    /\ sessionLog.envelopes = {sessionId}
    /\ last.op = "log"

\* C20: an API call is dispatched at most twice and its handler calls the
\* refresh at most once; a call already marked _retry that gets a 401 is
\* rejected to the caller in that step, with no refresh and no new dispatch.
C20_AtMostOneRetry ==
    [][ \A r \in Requests :
            LET a == requests[r]
                b == requests'[r]
            IN  /\ b.attempts <= 2
                /\ b.refreshes <= 1
                /\ (b.attempts = 2 => b.retry)
                /\ (a.phase = "sent" /\ a.retry /\ b # a /\ b.status = 401 =>
                        /\ b.phase = "rejected"
                        /\ b.refreshes = a.refreshes
                        /\ b.attempts = a.attempts)
      ]_vars

\* C20 witness: a call was refreshed and dispatched again, got a 401 again
\* and has been rejected.
C20_Witness ==
    \E r \in Requests :
        /\ requests[r].phase = "rejected"
        /\ requests[r].status = 401
        /\ requests[r].attempts = 2
        /\ requests[r].refreshes = 1

-----------------------------------------------------------------------------
(* The refresh of the credential after a 401 (SpecApi).                    *)

\* A step in which the pending refresh settles with success.
RefreshSucceeds ==
    authStore.refreshing /\ ~authStore'.refreshing /\ authStore'.accessToken # 0

\* A step in which the pending refresh settles with failure.
RefreshFails ==
    authStore.refreshing /\ ~authStore'.refreshing /\ authStore'.accessToken = 0

\* The calls whose 401 handler awaits the refresh.
Waiting == {r \in Requests : requests[r].phase = "refreshing"}

\* C22: when the refresh a not-yet-retried call awaits after its 401
\* succeeds, the call is dispatched once more, and the dispatch carries the
\* credential the refresh produced, not the one held before the refresh.
C22_ReissuedWithRefreshedCredential ==
    [][RefreshSucceeds =>
          \A r \in Waiting :
              /\ requests'[r].phase = "sent"
              /\ requests'[r].attempts = requests[r].attempts + 1
              /\ requests'[r].auth = authStore'.accessToken
              /\ requests'[r].auth # authStore.accessToken]_vars

\* The other half of C22: a retried call is dispatched again by the refresh
\* and its caller gets what the second dispatch gets.
C22_CallerGetsReissueOutcome ==
    [][\A r \in Requests :
          /\ (requests[r].phase = "refreshing" /\ RefreshSucceeds)
                => requests'[r].phase = "sent" /\ requests'[r].attempts = 2
          /\ (requests[r].phase = "sent" /\ requests[r].attempts = 2
                /\ requests'[r].phase # "sent")
                => /\ requests'[r].attempts = 2
                   /\ requests'[r].phase = IF requests'[r].status = 200
                                           THEN "resolved" ELSE "rejected"]_vars

\* C21: when several calls got a 401 before the refresh settled, one refresh
\* call was made for all of them, they share its outcome, and on success each
\* is dispatched once more with the credential the refresh produced.
C21_SingleFlightRefresh ==
    [][(Cardinality(Waiting) >= 2 /\ (RefreshSucceeds \/ RefreshFails)) =>
          /\ \A r \in Waiting : requests[r].refreshCall = authStore.calls
          /\ authStore'.calls = authStore.calls
          /\ \A r \in Waiting :
                IF RefreshSucceeds
                THEN /\ requests'[r].phase = "sent"
                     /\ requests'[r].attempts = requests[r].attempts + 1
                     /\ requests'[r].auth = authStore'.accessToken
                ELSE requests'[r].phase = "rejected"]_vars

\* C21 without the credential of the retry: one refresh call, one outcome,
\* one retry each.
C21_OneCallSharedOutcome ==
    [][(Cardinality(Waiting) >= 2 /\ (RefreshSucceeds \/ RefreshFails)) =>
          /\ \A r \in Waiting : requests[r].refreshCall = authStore.calls
          /\ authStore'.calls = authStore.calls
          /\ \A r \in Waiting :
                IF RefreshSucceeds
                THEN /\ requests'[r].phase = "sent"
                     /\ requests'[r].attempts = requests[r].attempts + 1
                ELSE requests'[r].phase = "rejected"]_vars

\* C23: when the refresh a not-yet-retried call awaits after its 401 fails,
\* the session state is cleared, the application is sent to the login page,
\* the call is not dispatched again (then or later) and its caller gets a
\* rejection.
C23_FailedRefreshLogsOut ==
    [][/\ RefreshFails =>
            /\ authStore'.loggedOut /\ authStore'.accessToken = 0
            /\ location' = "/login"
            /\ \A r \in Waiting :
                  /\ requests'[r].phase = "rejected"
                  /\ requests'[r].attempts = requests[r].attempts
       /\ \A r \in Requests :
            requests[r].phase = "rejected" => requests'[r] = requests[r]]_vars

C23_Witness ==
    \E r \in Requests :
        /\ requests[r].phase = "rejected" /\ requests[r].status = 401
        /\ requests[r].retry /\ requests[r].attempts = 1
        /\ authStore.loggedOut /\ location = "/login"

\* C24: no log entry written at dispatch, first attempt or retry, contains the
\* value of the Authorization header (0 stands for: no such header).
C24_NoCredentialInDispatchLog ==
    \A r \in Requests : requests[r].loggedAuth \subseteq {0}

-----------------------------------------------------------------------------
(* The timing table and the outcome of failed calls (SpecApi).             *)

\* The calls dispatched and not yet answered.
InFlight == {r \in Requests : requests[r].phase = "sent"}

\* C25: requestTimings has no more entries than there are calls in flight,
\* so it is empty whenever no call is in flight; the entry made at dispatch
\* is removed when the response or the error of the call is processed.
C25_TimingsOnlyInFlight ==
    /\ Cardinality(TimingsOf(requests)) <= Cardinality(InFlight)
    /\ InFlight = {} => TimingsOf(requests) = {}

\* C25 for the calls whose error carries its config: the entry is there while
\* the call is in flight and gone afterwards, across the retry as well.
C25_EntryWhileInFlight ==
    \A r \in Requests :
        requests[r].status # Thrown =>
            requests[r].timings =
                IF requests[r].phase = "sent" THEN {requests[r].requestId} ELSE {}

\* C26 as stated: every response with a status of 500 or more, whatever its
\* target, is logged at ERROR, a notification is shown and the caller gets a
\* rejection.
C26_ServerErrorAlwaysNotified ==
    \A r \in Requests :
        requests[r].status >= 500 =>
            /\ requests[r].failLog = "error"
            /\ requests[r].toast # "none"
            /\ requests[r].phase = "rejected"

\* C26, amended: every response with a status of 500 or more is logged at
\* ERROR and rejected to the caller; the notification is shown unless the
\* target is the status probe (its url contains '/auth/status').
C26_ServerErrorNotifiedUnlessProbe ==
    \A r \in Requests :
        requests[r].status >= 500 =>
            /\ requests[r].failLog = "error"
            /\ requests[r].toast = IF requests[r].probe THEN "none" ELSE "message"
            /\ requests[r].phase = "rejected"

C26_Witness ==
    \E r, q \in Requests :
        /\ requests[r].status = 500 /\ requests[r].probe
        /\ requests[r].phase = "rejected" /\ requests[r].toast = "none"
        /\ requests[q].status = 500 /\ ~requests[q].probe
        /\ requests[q].phase = "rejected" /\ requests[q].toast = "message"

\* C27: every response with a status from 400 to 499 that does not start a
\* refresh is logged at WARN, not at ERROR, and rejected to the caller; the
\* notification is shown exactly when the target is not the status probe.
C27_ClientErrorWarned ==
    [][\A r \in Requests :
          (/\ requests[r].phase = "sent"
           /\ requests'[r].phase \notin {"sent", "refreshing"}
           /\ requests'[r].status >= 400 /\ requests'[r].status <= 499)
          => /\ requests'[r].phase = "rejected"
             /\ requests'[r].failLog = "warn"
             /\ requests'[r].toast = "none" <=> requests'[r].probe
             /\ requests'[r].toast \in {"none", "message"}]_vars

C27_Witness ==
    \E r, q \in Requests :
        /\ requests[r].status = 404 /\ requests[r].probe
        /\ requests[r].phase = "rejected" /\ requests[r].failLog = "warn"
        /\ requests[r].toast = "none"
        /\ requests[q].status = 401 /\ requests[q].attempts = 2 /\ ~requests[q].probe
        /\ requests[q].phase = "rejected" /\ requests[q].failLog = "warn"
        /\ requests[q].toast = "message"

\* C28: a call that ends with no response received (a timeout included) is
\* logged at ERROR as a network failure, shows the connectivity notification,
\* is rejected to the caller, and starts neither a refresh nor a retry.
C28_NoResponseRejected ==
    [][\A r \in Requests :
          (requests[r].phase = "sent" /\ requests'[r].phase # "sent"
           /\ requests'[r].status = NoResponse)
          => /\ requests'[r].phase = "rejected"
             /\ requests'[r].failLog = "error" /\ requests'[r].failKind = "network"
             /\ requests'[r].toast = "connection"
             /\ requests'[r].attempts = requests[r].attempts
             /\ requests'[r].refreshes = requests[r].refreshes
             /\ authStore' = authStore]_vars

C28_Witness ==
    \E r \in Requests :
        /\ requests[r].phase = "rejected" /\ requests[r].status = NoResponse
        /\ requests[r].failKind = "network" /\ requests[r].toast = "connection"
        /\ requests[r].probe /\ requests[r].attempts = 1 /\ ~requests[r].retry

\* C29: a failed call that no successful retry recovers is rejected to its
\* caller, and by then its timing entry is removed and the failure is logged
\* and notified as its kind requires; only a 2xx resolves the caller's promise.
C29_RejectedAfterPipeline ==
    \A r \in Requests :
        /\ requests[r].phase = "rejected" =>
              /\ requests[r].status # 200
              /\ requests[r].timings = {}
              /\ requests[r].failLog # "none" /\ requests[r].failKind # "none"
              /\ requests[r].toast # "none" \/ requests[r].probe
        /\ requests[r].phase = "resolved" => requests[r].status = 200

\* C29 without the timing entry of a call whose error carries no config.
C29_RejectedLoggedNotified ==
    \A r \in Requests :
        /\ requests[r].phase = "rejected" =>
              /\ requests[r].status # 200
              /\ requests[r].status # Thrown => requests[r].timings = {}
              /\ requests[r].failLog # "none" /\ requests[r].failKind # "none"
              /\ requests[r].toast # "none" \/ requests[r].probe
        /\ requests[r].phase = "resolved" => requests[r].status = 200

-----------------------------------------------------------------------------
(* The cache-defeating parameter (SpecApi).                                *)

-----------------------------------------------------------------------------
(* The logging facade after setLevel, and the global error listeners       *)
(* (SpecLevels).                                                           *)

\* C35: a logging call at or above the minimum severity appends exactly one
\* entry to the queue, also after setLevel has been called.
C35_StillQueuedAfterSetLevel ==
    (call.op = "log" /\ call.m >= call.min) => call.appended = 1

\* C35 before any call of setLevel: the interceptors are in place and every
\* logging call appends one entry.
C35_QueuedWhileIntercepted ==
    (call.op = "log" /\ logMethod = Intercepted) => call.appended = 1

\* C31: the listener of an uncaught exception and the listener of an unhandled
\* rejection each append exactly one entry, at level ERROR, to the queue.
C31_UncaughtErrorQueued ==
    call.op \in {"error", "unhandledrejection"} =>
        call.m = ERROR /\ call.appended = 1

\* C31 before any call of setLevel.
C31_QueuedWhileIntercepted ==
    (call.op \in {"error", "unhandledrejection"} /\ logMethod = Intercepted) =>
        call.m = ERROR /\ call.appended = 1

-----------------------------------------------------------------------------
(* Delivered entries and the backlog; teardown during a pending send;      *)
(* single flight; the partition of a lifetime's entries (Spec).            *)

\* C32: when the collector has acknowledged a batch, localStorage holds none
\* of the acknowledged entries, and no entry is ever accepted twice, reloads
\* included.
C32_DeliveredNotReshipped ==
    /\ last.op = "ok" => Range(storage) \cap Range(accepted) = {}
    /\ NoDuplicates(accepted)

\* C32 within one page lifetime: no entry is accepted twice.
C32_OncePerLifetime == NoDuplicates(LifetimeAccepted)

\* C33: the teardown handler leaves every entry of the queue either handed to
\* sendBeacon or its XHR fallback, or stored in localStorage (the queue
\* fitting into the backlog), also while a fetch is pending.
C33_TeardownLeavesNothingInMemory ==
    [][(last'.op = "teardown" /\ Len(logQueue) <= MAX_STORED_LOGS) =>
          Range(logQueue) \subseteq Range(NewlyBeaconed) \cup Range(storage')]_vars

\* C33 when no fetch is pending at teardown.
C33_TeardownWhenIdle ==
    [][(last'.op = "teardown" /\ Len(logQueue) <= MAX_STORED_LOGS /\ ~isSending) =>
          Range(logQueue) \subseteq Range(NewlyBeaconed) \cup Range(storage')]_vars

\* C34: while a fetch is pending, a handler that calls flushLogs (timer, log
\* call reaching the threshold, 'online', page hidden, teardown) starts no
\* send and leaves queue, batch and backlog as they are (a log call only
\* appends its entry); the turn that settles the fetch, successfully or not,
\* clears isSending.
C34_SingleFlight ==
    [][(isSending /\ last'.op # "restart") =>
          IF last'.op \in {"ok", "fail"}
          THEN ~isSending'
          ELSE /\ isSending'
               /\ last'.sent = "none"
               /\ logsToSend' = logsToSend
               /\ storage' = storage
               /\ beaconed' = beaconed
               /\ logQueue' = IF last'.op = "log"
                              THEN Append(logQueue, nextId') ELSE logQueue]_vars

\* C34 witness: a log call has just brought the queue to the threshold while
\* a fetch is pending, and no second send was started.
C34_Witness ==
    /\ isSending
    /\ last.op = "log" /\ last.sent = "none"
    /\ Len(logQueue) >= LOG_BATCH_SIZE
    /\ logsToSend # <<>>

\* The entries created by addToQueue in the current page lifetime.
CreatedInLifetime == lifeFirst .. nextId

\* How many times entry e occurs in the sequence s.
Occurrences(s, e) == Cardinality({i \in 1 .. Len(s) : s[i] = e})

\* C36: every entry created in the current lifetime is, at every moment, in
\* exactly one place, once: the queue, the batch of the pending send, or
\* handed off (accepted by the collector, or given to sendBeacon / the
\* teardown XHR).
C36_ExactlyOnePlace ==
    \A e \in CreatedInLifetime :
        Occurrences(logQueue, e) + Occurrences(logsToSend, e)
            + Occurrences(accepted, e) + Occurrences(beaconed, e) = 1

\* C36 witness: entries of one lifetime are in all three places at once, one
\* of them back in the queue after a failed send.
C36_Witness ==
    /\ lifeFirst = 1
    /\ logQueue # <<>>
    /\ isSending /\ logsToSend # <<>>
    /\ Range(accepted) \cup Range(beaconed) # {}
    /\ requeued # {}

-----------------------------------------------------------------------------
(* Offline flushes and the logger's own handlers leave the queue alone     *)
(* (Spec).                                                                 *)

\* C37: a flush while OFFLINE leaves the queue as it is (a log call only
\* appends its entry), so that the next send that starts in this lifetime
\* takes every queued entry, those logged while OFFLINE included, and its
\* acknowledgement delivers them: no reload is needed.
C37_OfflineFlushKeepsQueue ==
    [][/\ (~isOnline /\ last'.op \in FlushOps) => logQueue' = logQueue
       /\ (~isOnline /\ last'.op = "log") => logQueue' = Append(logQueue, nextId')
       /\ (~isSending /\ isSending' /\ last'.op # "restart") =>
              /\ Range(logQueue) \subseteq Range(logsToSend')
              /\ logQueue' = <<>>
       /\ last'.op = "ok" => accepted' = accepted \o logsToSend]_vars

\* C37 witness: the entries of this lifetime were mirrored by a flush while
\* OFFLINE, stayed in the queue, and the 'online' handler has just put them
\* all into a fetch.
C37_Witness ==
    /\ last.op = "online" /\ last.sent = "fetch"
    /\ lifeFirst = 1 /\ requeued = {} /\ accepted = <<>> /\ beaconed = <<>>
    /\ Len(logsToSend) >= 2
    /\ storage = logsToSend

\* The turns of the logger's own handlers: timer, connectivity, visibility,
\* teardown, and the settling of a send.
OwnHandlers == {"tick", "online", "offline", "hidden", "teardown", "ok", "fail"}

\* C38: the logger's own handlers create no entry: after any of them the
\* queue holds only entries that were in the queue or in the pending batch
\* before, and after a failed send exactly the failed batch followed by the
\* queue.
C38_HandlersAppendNothing ==
    [][last'.op \in OwnHandlers =>
          /\ nextId' = nextId
          /\ Range(logQueue') \subseteq Range(logQueue) \cup Range(logsToSend)
          /\ Len(logQueue') <= Len(logQueue) + Len(logsToSend)
          /\ last'.op = "fail" => logQueue' = logsToSend \o logQueue]_vars

\* C38 witness: a send has just failed in a lifetime in which nothing was
\* delivered, every entry has been in a failed batch, and the queue holds the
\* entries the application logged and nothing else.
C38_Witness ==
    /\ last.op = "fail"
    /\ lifeFirst = 1 /\ accepted = <<>> /\ beaconed = <<>>
    /\ nextId >= 3
    /\ logQueue = [i \in 1 .. nextId |-> i]
    /\ requeued = Range(logQueue)

-----------------------------------------------------------------------------
(* What starts a refresh (SpecApi).                                        *)

\* C39: the handler of a response calls the refresh exactly when the status
\* is 401 and the call is not marked retried; any other response, a missing
\* response and a thrown error settle the caller's promise at once, with no
\* refresh, no further dispatch and the session state and location as they
\* were; the session is cleared only by a failed refresh.
C39_RefreshOnlyOnFirst401 ==
    [][/\ \A r \in Requests :
            (requests[r].phase = "sent" /\ requests'[r].phase # "sent") =>
                IF requests'[r].status = 401 /\ ~requests[r].retry
                THEN requests'[r].refreshes = requests[r].refreshes + 1
                ELSE /\ requests'[r].refreshes = requests[r].refreshes
                     /\ requests'[r].attempts = requests[r].attempts
                     /\ requests'[r].phase \in {"resolved", "rejected"}
                     /\ authStore' = authStore
                     /\ location' = location
       /\ authStore'.calls # authStore.calls =>
            \E r \in Requests :
                /\ requests[r].phase = "sent" /\ ~requests[r].retry
                /\ requests'[r].status = 401
       /\ authStore'.loggedOut # authStore.loggedOut => RefreshFails]_vars

\* C39 witness: one call was refreshed, sent again and rejected on its second
\* 401; another was rejected on a server error; one refresh call was made and
\* the session is still there.
C39_Witness ==
    \E r, q \in Requests :
        /\ requests[r].phase = "rejected" /\ requests[r].status = 401
        /\ requests[r].attempts = 2 /\ requests[r].refreshes = 1
        /\ requests[q].phase = "rejected" /\ requests[q].status = 500
        /\ requests[q].attempts = 1 /\ requests[q].refreshes = 0
        /\ authStore.calls = 1 /\ ~authStore.loggedOut /\ location = "/"

=============================================================================
